---- MODULE Spec2Model ----
(***************************************************************************)
(* CampusMate backend: the attendance / marks write workflow of the        *)
(* teachers, attendance and marks routers, and the teacher XP / leveling   *)
(* routine (addTeacherXP, checkTeacherLevelUp).                            *)
(*                                                                         *)
(* A request is handled by one worker.  A worker is suspended only at an   *)
(* awaited store query, so one action of the model is: the store executes  *)
(* the query the worker is waiting for, and the handler then runs up to    *)
(* the next query it issues (or to its response).                          *)
(***************************************************************************)
EXTENDS Integers, Sequences, FiniteSets, TLC

VARIABLES
    teachers,        \* table teachers: id -> [xp, level, next_xp_target]
    teacher_batches, \* table teacher_batches: set of <<teacher_id, batch_id>>
    attendance,      \* table attendance: set of rows
    marks,           \* table marks: set of committed rows
    req,             \* per worker: the request it handles, its locals, its response
    nreq             \* number of requests started so far

vars == <<teachers, teacher_batches, attendance, marks, req, nreq>>

----------------------------------------------------------------------------
(* Program constants *)

XP_ATTENDANCE == 10
XP_MARKS == 15
MAX_LEVEL == 10
LEVEL_STEP == 150
DEFAULT_LEVEL == 1
DEFAULT_NEXT_XP_TARGET == 250

(* Bounds of the model *)

MaxRequests == 2      \* requests started in one behaviour
MaxAwards == 3        \* awards started in one behaviour of SpecSerial
MaxOverlapAwards == 2 \* awards started in one behaviour of SpecXP
MaxRecords == 2       \* records in one payload
MaxVeteranAwards == 3      \* overlapping awards to the teacher who starts at level 8
MaxLoopAwards == 2    \* awards started in one behaviour of SpecLoop

None == "none"

TeacherIds == {1, 2}
Workers == {1, 2}
StoreOutcomes == {"ok", "error"}

----------------------------------------------------------------------------
(* The worker record *)

NoResp == [status |-> 0, message |-> None, fields |-> None, count |-> 0, rows |-> {}]

Idle ==
    [kind |-> "idle", route |-> None, pc |-> "idle",
     user |-> [id |-> 0, role |-> None], tid |-> 0,
     date |-> "", batch_id |-> 0, isArray |-> FALSE, records |-> <<>>,
     values |-> <<>>, teacherId |-> 0, amount |-> 0,
     xp |-> 0, level |-> 0, next_xp_target |-> 0,
     body |-> NoResp, resp |-> NoResp,
     xpStart |-> None, xpError |-> FALSE, storeError |-> FALSE, iters |-> 0,
     overlapped |-> FALSE,
     attBefore |-> {}, xpBefore |-> None, upserted |-> FALSE,
     everAssigned |-> FALSE, alwaysAssigned |-> FALSE,
     prev |-> [ok |-> FALSE, date |-> "", batch_id |-> 0, records |-> <<>>],
     assessment |-> "", idx |-> 0, conn |-> "none", txn |-> "none",
     releases |-> 0, txnMarks |-> {}, marksBefore |-> {}]

----------------------------------------------------------------------------
(* XP system helpers *)

\* The row fetched by SELECT xp, level, next_xp_target FROM teachers WHERE id = ?
XPRows(id) == IF id \in DOMAIN teachers THEN {teachers[id]} ELSE {}

\* res.json of the handler once the XP update returned or was caught
AfterXP(r) ==
    CASE r.kind = "att_post" ->
           [r EXCEPT !.pc = "done",
                     !.resp = [status |-> 200, message |-> "Saved", fields |-> None,
                               count |-> Len(r.records), rows |-> {}]]
      [] r.kind = "marks_post" ->
           [r EXCEPT !.pc = "done", !.resp = r.body]
      [] OTHER -> [r EXCEPT !.pc = "done"]

\* callers that let the XP failure reach the handler's own catch
XPFailed_ServerError(r) ==
    [r EXCEPT !.pc = "done", !.xpError = TRUE,
              !.resp = [NoResp EXCEPT !.status = 500, !.message = "Server error"]]

\* catch (err) of addTeacherXP rethrows; the callers catch and log
XPFailed(r) == AfterXP([r EXCEPT !.xpError = TRUE])

\* The level-up loop with one of its conditions changed
LevelUpLoop_NoCap(r) ==
    IF r.xp >= r.next_xp_target
    THEN LET level == r.level + 1
         IN [r EXCEPT !.pc = "xp_update",
                      !.xp = r.xp - r.next_xp_target,
                      !.level = level,
                      !.next_xp_target =
                          IF level < MAX_LEVEL THEN r.next_xp_target + LEVEL_STEP
                                               ELSE r.next_xp_target,
                      !.iters = r.iters + 1]
    ELSE AfterXP(r)

LevelUpLoop_Strict(r) ==
    IF r.xp > r.next_xp_target /\ r.level < MAX_LEVEL
    THEN LET level == r.level + 1
         IN [r EXCEPT !.pc = "xp_update",
                      !.xp = r.xp - r.next_xp_target,
                      !.level = level,
                      !.next_xp_target =
                          IF level < MAX_LEVEL THEN r.next_xp_target + LEVEL_STEP
                                               ELSE r.next_xp_target,
                      !.iters = r.iters + 1]
    ELSE AfterXP(r)

LevelUpLoop_NoSpend(r) ==
    IF r.xp >= r.next_xp_target /\ r.level < MAX_LEVEL
    THEN LET level == r.level + 1
         IN [r EXCEPT !.pc = "xp_update",
                      !.level = level,
                      !.next_xp_target =
                          IF level < MAX_LEVEL THEN r.next_xp_target + LEVEL_STEP
                                               ELSE r.next_xp_target,
                      !.iters = r.iters + 1]
    ELSE AfterXP(r)

LevelUpLoop_AlwaysStep(r) ==
    IF r.xp >= r.next_xp_target /\ r.level < MAX_LEVEL
    THEN [r EXCEPT !.pc = "xp_update",
                   !.xp = r.xp - r.next_xp_target,
                   !.level = r.level + 1,
                   !.next_xp_target = r.next_xp_target + LEVEL_STEP,
                   !.iters = r.iters + 1]
    ELSE AfterXP(r)

LevelUpLoop_KeepTarget(r) ==
    IF r.xp >= r.next_xp_target /\ r.level < MAX_LEVEL
    THEN [r EXCEPT !.pc = "xp_update",
                   !.xp = r.xp - r.next_xp_target,
                   !.level = r.level + 1,
                   !.iters = r.iters + 1]
    ELSE AfterXP(r)

LevelUpLoop_LevelKept(r) ==
    IF r.xp >= r.next_xp_target /\ r.level < MAX_LEVEL
    THEN [r EXCEPT !.pc = "xp_update",
                   !.xp = r.xp - r.next_xp_target,
                   !.next_xp_target = r.next_xp_target + LEVEL_STEP,
                   !.iters = r.iters + 1]
    ELSE AfterXP(r)

\* The while loop of checkTeacherLevelUp, entered with the locals of r: one
\* iteration up to the awaited UPDATE, or the return when the condition fails
LevelUpLoop(r) ==
    IF r.xp >= r.next_xp_target /\ r.level < MAX_LEVEL
    THEN LET level == r.level + 1
         IN [r EXCEPT !.pc = "xp_update",
                      !.xp = r.xp - r.next_xp_target,
                      !.level = level,
                      !.next_xp_target =
                          IF level < MAX_LEVEL THEN r.next_xp_target + LEVEL_STEP
                                               ELSE r.next_xp_target,
                      !.iters = r.iters + 1]
    ELSE AfterXP(r)

\* addTeacherXP is called: the UPDATE xp = xp + ? is issued
CallAddTeacherXP(r, teacherId, amount) ==
    [r EXCEPT !.pc = "xp_add", !.teacherId = teacherId, !.amount = amount,
              !.xpStart = IF teacherId \in DOMAIN teachers
                          THEN teachers[teacherId] ELSE None,
              !.iters = 0]

\* the UPDATE with xp frozen once the teacher is at the top level
addTeacherXP_FrozenAtMaxLevel(w) ==
    /\ req[w].pc = "xp_add"
    /\ \E outcome \in StoreOutcomes :
         IF outcome = "error"
         THEN /\ req' = [req EXCEPT ![w] = XPFailed(req[w])]
              /\ UNCHANGED teachers
         ELSE /\ teachers' =
                    IF req[w].teacherId \in DOMAIN teachers
                       /\ teachers[req[w].teacherId].level < MAX_LEVEL
                    THEN [teachers EXCEPT ![req[w].teacherId].xp = @ + req[w].amount]
                    ELSE teachers
              /\ req' = [req EXCEPT ![w].pc = "xp_select"]
    /\ UNCHANGED <<teacher_batches, attendance, marks, nreq>>

\* UPDATE teachers SET xp = xp + ? WHERE id = ?
addTeacherXP(w) ==
    /\ req[w].pc = "xp_add"
    /\ \E outcome \in StoreOutcomes :
         IF outcome = "error"
         THEN /\ req' = [req EXCEPT ![w] = XPFailed(req[w])]
              /\ UNCHANGED teachers
         ELSE /\ teachers' =
                    IF req[w].teacherId \in DOMAIN teachers
                    THEN [teachers EXCEPT ![req[w].teacherId].xp = @ + req[w].amount]
                    ELSE teachers
              /\ req' = [req EXCEPT ![w].pc = "xp_select"]
    /\ UNCHANGED <<teacher_batches, attendance, marks, nreq>>

\* SELECT xp, level, next_xp_target ..., the two early returns, the first test
\* of the loop
checkTeacherLevelUp(w) ==
    /\ req[w].pc = "xp_select"
    /\ \E outcome \in StoreOutcomes :
         IF outcome = "error"
         THEN req' = [req EXCEPT ![w] = XPFailed(req[w])]
         ELSE LET rows == XPRows(req[w].teacherId)
              IN IF rows = {}
                 THEN req' = [req EXCEPT ![w] = AfterXP(req[w])]
                 ELSE LET row == CHOOSE x \in rows : TRUE
                          r == [req[w] EXCEPT !.xp = row.xp, !.level = row.level,
                                              !.next_xp_target = row.next_xp_target]
                      IN IF r.level >= MAX_LEVEL
                         THEN req' = [req EXCEPT ![w] = AfterXP(r)]
                         ELSE req' = [req EXCEPT ![w] = LevelUpLoop(r)]
    /\ UNCHANGED <<teachers, teacher_batches, attendance, marks, nreq>>

\* an if in place of the while: the UPDATE is followed by the return
LevelUpUpdate_Once(w) ==
    /\ req[w].pc = "xp_update"
    /\ \E outcome \in StoreOutcomes :
         IF outcome = "error"
         THEN /\ req' = [req EXCEPT ![w] = XPFailed(req[w])]
              /\ UNCHANGED teachers
         ELSE /\ teachers' =
                    IF req[w].teacherId \in DOMAIN teachers
                    THEN [teachers EXCEPT ![req[w].teacherId] =
                             [xp |-> req[w].xp, level |-> req[w].level,
                              next_xp_target |-> req[w].next_xp_target]]
                    ELSE teachers
              /\ req' = [req EXCEPT ![w] = AfterXP(req[w])]
    /\ UNCHANGED <<teacher_batches, attendance, marks, nreq>>

\* UPDATE teachers SET xp = ?, level = ?, next_xp_target = ? WHERE id = ?
\* inside the loop, then the next test of the loop
LevelUpUpdate(w) ==
    /\ req[w].pc = "xp_update"
    /\ \E outcome \in StoreOutcomes :
         IF outcome = "error"
         THEN /\ req' = [req EXCEPT ![w] = XPFailed(req[w])]
              /\ UNCHANGED teachers
         ELSE /\ teachers' =
                    IF req[w].teacherId \in DOMAIN teachers
                    THEN [teachers EXCEPT ![req[w].teacherId] =
                             [xp |-> req[w].xp, level |-> req[w].level,
                              next_xp_target |-> req[w].next_xp_target]]
                    ELSE teachers
              /\ req' = [req EXCEPT ![w] = LevelUpLoop(req[w])]
    /\ UNCHANGED <<teacher_batches, attendance, marks, nreq>>

\* the response has been sent and the handler has returned
Finish(w) ==
    /\ req[w].pc = "done"
    /\ req' = [req EXCEPT ![w] =
                  [Idle EXCEPT !.prev =
                      IF req[w].kind = "att_post" /\ req[w].resp.status = 200
                      THEN [ok |-> TRUE, date |-> req[w].date,
                            batch_id |-> req[w].batch_id, records |-> req[w].records]
                      ELSE Idle.prev]]
    /\ UNCHANGED <<teachers, teacher_batches, attendance, marks, nreq>>

XPStep(w) == addTeacherXP(w) \/ checkTeacherLevelUp(w) \/ LevelUpUpdate(w)

----------------------------------------------------------------------------
(* Awards on their own: callers of addTeacherXP with any positive amount *)

AwardAmounts == {0, XP_ATTENDANCE, 250, 1000, 5000}
OverlapAmounts == {XP_ATTENDANCE, 250, 5000}
AwardTeachers == {1}

InAward(r, t) == r.pc \in {"xp_add", "xp_select", "xp_update"} /\ r.teacherId = t

\* overlapped records that another award to the same teacher was in progress
\* at some time between the start and the end of this one
Award(w, max, amounts) ==
    /\ req[w].pc = "idle"
    /\ nreq < max
    /\ \E t \in AwardTeachers, a \in amounts :
         LET other == \E v \in Workers \ {w} : InAward(req[v], t)
         IN req' = [v \in Workers |->
                      IF v = w
                      THEN [CallAddTeacherXP([Idle EXCEPT !.kind = "award"], t, a)
                               EXCEPT !.overlapped = other]
                      ELSE IF InAward(req[v], t)
                           THEN [req[v] EXCEPT !.overlapped = TRUE]
                           ELSE req[v]]
    /\ nreq' = nreq + 1
    /\ UNCHANGED <<teachers, teacher_batches, attendance, marks>>

----------------------------------------------------------------------------
(* Principals, tables that the workflow only reads, and request inputs *)

\* req.user of the auth middleware: teacher 1 and an admin; teacher 2 is the
\* other teacher of the path parameter
Users == {[id |-> 1, role |-> "teacher"], [id |-> 9, role |-> "admin"]}
BatchIds == {1, 2}

\* table students: id -> batch_id
students == (1 :> 1) @@ (2 :> 1) @@ (3 :> 2)

\* req.body.date: two calendar days in YYYY-MM-DD form, one day in DD-MM-YYYY
\* form, and the missing date
DateInputs == {"2024-01-15", "2024-01-16", "15-01-2024", ""}
\* req.body.batch_id; 0 stands for a missing one
BatchIdInputs == {0, 1, 2}
\* one element of req.body.records; student_id 0 stands for a missing, zero or
\* non-numeric student_id (Number(..) is 0 or NaN, dropped by filter(Boolean))
RecordInputs ==
    {[student_id |-> 1, status |-> "Present"], [student_id |-> 1, status |-> "Absent"],
     [student_id |-> 2, status |-> "Late"], [student_id |-> 3, status |-> "Present"],
     [student_id |-> 0, status |-> "Present"]}

SeqsUpTo(S, n) == UNION {[1..k -> S] : k \in 1..n}

\* req.body.records: not an array, the empty array, or up to MaxRecords records
RecordsInputs ==
    {[isArray |-> FALSE, records |-> <<>>], [isArray |-> TRUE, records |-> <<>>]}
    \cup {[isArray |-> TRUE, records |-> s] : s \in SeqsUpTo(RecordInputs, MaxRecords)}

\* the request as it enters a handler; the fields that are not the program's
\* (attBefore, xpBefore, upserted, everAssigned, alwaysAssigned, prev) record
\* the history the properties speak about
NewRequest(w, kind, route, user, tid, date, batch_id, recs) ==
    [Idle EXCEPT !.kind = kind, !.route = route, !.user = user, !.tid = tid,
                 !.date = date, !.batch_id = batch_id,
                 !.isArray = recs.isArray, !.records = recs.records,
                 !.attBefore = attendance,
                 !.xpBefore = teachers,
                 !.everAssigned = <<tid, batch_id>> \in teacher_batches,
                 !.alwaysAssigned = <<tid, batch_id>> \in teacher_batches,
                 !.prev = req[w].prev]

isAdmin(user) == user.role = "admin"

isSelf(user, id) == user.id = id

\* /^\d{4}-\d{2}-\d{2}$/.test(d) && !Number.isNaN(new Date(d).getTime())
DateForm(d) ==
    CASE d = "2024-01-15" -> [iso |-> TRUE, y |-> 2024, m |-> 1, d |-> 15]
      [] d = "2024-01-16" -> [iso |-> TRUE, y |-> 2024, m |-> 1, d |-> 16]
      [] OTHER -> [iso |-> FALSE, y |-> 0, m |-> 0, d |-> 0]
\* a check that only asks for some date string
isValidDateString_NonEmpty(d) == d # ""

isValidDateString(d) ==
    /\ d # ""
    /\ DateForm(d).iso
    /\ DateForm(d).m \in 1..12
    /\ DateForm(d).d \in 1..31

\* DATE(?) of the store: the calendar day of a date string, as yyyymmdd
DATE(d) == DateForm(d).y * 10000 + DateForm(d).m * 100 + DateForm(d).d

Reply(r, status, message, fields, count, rows) ==
    [r EXCEPT !.pc = "done",
              !.resp = [status |-> status, message |-> message, fields |-> fields,
                        count |-> count, rows |-> rows]]

\* catch (err) of a handler: 500 Server error
ServerError(r) ==
    Reply([r EXCEPT !.storeError = TRUE], 500, "Server error", None, 0, {})

RECURSIVE FilterBoolean(_)
\* records.map((r) => Number(r.student_id)).filter(Boolean)
FilterBoolean(recs) ==
    IF recs = <<>> THEN <<>>
    ELSE IF Head(recs).student_id # 0
         THEN <<Head(recs).student_id>> \o FilterBoolean(Tail(recs))
         ELSE FilterBoolean(Tail(recs))

Range(s) == {s[i] : i \in DOMAIN s}

BuildValues_FirstRecordOnly(r) ==
    [i \in {1} |->
        [student_id |-> r.records[i].student_id,
         attendance_date |-> DATE(r.date),
         status |-> IF r.records[i].status = "Present" THEN "Present" ELSE "Absent",
         recorded_by |-> r.user.id]]

\* values with the status as it was submitted
BuildValues_StatusAsSubmitted(r) ==
    [i \in DOMAIN r.records |->
        [student_id |-> r.records[i].student_id,
         attendance_date |-> DATE(r.date),
         status |-> r.records[i].status,
         recorded_by |-> r.user.id]]

\* for (const r of records) values.push(sid, date, status, user.id)
BuildValues(r) ==
    [i \in DOMAIN r.records |->
        [student_id |-> r.records[i].student_id,
         attendance_date |-> DATE(r.date),
         status |-> IF r.records[i].status = "Present" THEN "Present" ELSE "Absent",
         recorded_by |-> r.user.id]]

\* the unique key of table attendance
AttendanceKey(a) == <<a.student_id, a.attendance_date>>

\* an upsert that replaces every row of the student, whatever its date
UpsertRow_ByStudent(att, v) ==
    {a \in att : a.student_id # v.student_id} \cup {v}

\* INSERT without the ON DUPLICATE KEY UPDATE clause, on a table without the key
UpsertRow_InsertOnly(att, v) == att \cup {v}

\* INSERT IGNORE: a duplicate key keeps the stored row
UpsertRow_IgnoreDuplicate(att, v) ==
    IF \E a \in att : AttendanceKey(a) = AttendanceKey(v) THEN att ELSE att \cup {v}

\* one VALUES row of INSERT ... ON DUPLICATE KEY UPDATE status, recorded_by
UpsertRow(att, v) ==
    LET same == {a \in att : AttendanceKey(a) = AttendanceKey(v)}
    IN (att \ same) \cup {v}

RECURSIVE UpsertAll(_, _)
\* the whole statement: the VALUES rows are applied in order
UpsertAll(att, values) ==
    IF values = <<>> THEN att
    ELSE UpsertAll(UpsertRow(att, Head(values)), Tail(values))

\* SELECT a.student_id, a.status, a.recorded_by FROM attendance a JOIN students s
\* ON s.id = a.student_id WHERE a.attendance_date = ? AND s.batch_id = ?
AttendanceRows(att, date, batchId) ==
    {[student_id |-> a.student_id, status |-> a.status, recorded_by |-> a.recorded_by] :
        a \in {x \in att : /\ x.attendance_date = DATE(date)
                           /\ x.student_id \in DOMAIN students
                           /\ students[x.student_id] = batchId}}

----------------------------------------------------------------------------
(* POST /api/teachers/:id/attendance (teachers router) *)

\* after the permission check: the student ids of the records, the 400 when
\* none is left, else the SELECT id FROM students ... is issued
ValidateStudentIds(r) ==
    IF FilterBoolean(r.records) = <<>>
    THEN Reply(r, 400, "Validation failed", "records: student_id required", 0, {})
    ELSE [r EXCEPT !.pc = "students"]

\* the handler from its entry to its first awaited query.  The teacher-scoped
\* handlers of the teachers router and of the attendance router validate the
\* shape and then check the permission; the admin handler of the attendance
\* router checks isAdmin first and has no check of an empty studentIds
PostAttendanceEntry(r) ==
    IF r.route = "admin" /\ ~isAdmin(r.user)
    THEN Reply(r, 403, "Forbidden", None, 0, {})
    ELSE IF ~isValidDateString(r.date)
    THEN Reply(r, 400, "Validation failed", "date", 0, {})
    ELSE IF r.batch_id = 0
    THEN Reply(r, 400, "Validation failed", "batch_id", 0, {})
    ELSE IF ~r.isArray \/ Len(r.records) = 0
    THEN Reply(r, 400, "Validation failed", "records", 0, {})
    ELSE IF r.route = "admin"
    THEN [r EXCEPT !.pc = "students"]
    ELSE IF ~isAdmin(r.user) /\ ~isSelf(r.user, r.tid)
    THEN Reply(r, 403, "Forbidden", None, 0, {})
    ELSE IF ~isAdmin(r.user)
    THEN [r EXCEPT !.pc = "has_batch"]
    ELSE ValidateStudentIds(r)

\* POST /api/teachers/:id/attendance, POST /api/attendance/teachers/:id/attendance
\* and POST /api/attendance (no path id)
PostRoutes == {"teachers", "attendance", "admin"}

PostAttendance(w) ==
    /\ req[w].pc = "idle"
    /\ nreq < MaxRequests
    /\ \E route \in PostRoutes, user \in Users, tid \in TeacherIds,
          date \in DateInputs, batch_id \in BatchIdInputs, recs \in RecordsInputs :
         /\ route = "admin" => tid = 1
         /\ req' = [req EXCEPT ![w] =
                      PostAttendanceEntry(
                          NewRequest(w, "att_post", route, user,
                                     IF route = "admin" THEN 0 ELSE tid,
                                     date, batch_id, recs))]
    /\ nreq' = nreq + 1
    /\ UNCHANGED <<teachers, teacher_batches, attendance, marks>>

\* a check that any assignment of the teacher satisfies
teacherHasBatch_AnyBatch(teacherId, batchId) ==
    \E b \in BatchIds : <<teacherId, b>> \in teacher_batches

teacherHasBatch_AnyTeacher(teacherId, batchId) ==
    \E t \in TeacherIds : <<t, batchId>> \in teacher_batches

\* SELECT 1 FROM teacher_batches WHERE teacher_id = ? AND batch_id = ? LIMIT 1
teacherHasBatch(teacherId, batchId) == <<teacherId, batchId>> \in teacher_batches

\* the awaited teacherHasBatch of a handler and what follows it
AwaitTeacherHasBatch(w) ==
    /\ req[w].pc = "has_batch"
    /\ \E outcome \in StoreOutcomes :
         req' = [req EXCEPT ![w] =
                    IF outcome = "error" THEN ServerError(req[w])
                    ELSE IF ~teacherHasBatch(req[w].tid, req[w].batch_id)
                    THEN Reply(req[w], 403, "Forbidden: not assigned to batch", None, 0, {})
                    ELSE IF req[w].kind = "att_get"
                    THEN [req[w] EXCEPT !.pc = "select_att"]
                    ELSE ValidateStudentIds(req[w])]
    /\ UNCHANGED <<teachers, teacher_batches, attendance, marks, nreq>>

\* rejects only when no student of the records is in the batch
Invalids_UnlessSomeValid(studentIds, batch_id) ==
    IF \E sid \in Range(studentIds) :
           sid \in DOMAIN students /\ students[sid] = batch_id
    THEN {}
    ELSE Range(studentIds)

\* SELECT id FROM students WHERE id IN (?) AND batch_id = ?, validStudentSet,
\* and the ids of studentIds that are not in it
Invalids(studentIds, batch_id) ==
    LET validStudentSet == {sid \in Range(studentIds) :
                               /\ sid \in DOMAIN students
                               /\ students[sid] = batch_id}
    IN {sid \in Range(studentIds) : sid \notin validStudentSet}

\* the awaited students query, the invalids check, and the VALUES of the bulk
\* upsert
SelectStudents(w) ==
    /\ req[w].pc = "students"
    /\ \E outcome \in StoreOutcomes :
         req' = [req EXCEPT ![w] =
                    IF outcome = "error" THEN ServerError(req[w])
                    ELSE IF FilterBoolean(req[w].records) = <<>>
                    THEN ServerError(req[w])   \* IN () is a syntax error of the store
                    ELSE LET studentIds == FilterBoolean(req[w].records)
                             invalids == Invalids(studentIds, req[w].batch_id)
                         IN IF invalids # {}
                            THEN Reply(req[w], 400, "Validation failed",
                                       "records: Some student(s) not in selected batch",
                                       0, {})
                            ELSE [req[w] EXCEPT !.pc = "upsert",
                                                !.values = BuildValues(req[w])]]
    /\ UNCHANGED <<teachers, teacher_batches, attendance, marks, nreq>>

\* INSERT INTO attendance ... ON DUPLICATE KEY UPDATE ..., then the XP award
UpsertAttendance(w) ==
    /\ req[w].pc = "upsert"
    /\ \E outcome \in StoreOutcomes :
         IF outcome = "error"
         THEN /\ req' = [req EXCEPT ![w] = ServerError(req[w])]
              /\ UNCHANGED attendance
         ELSE /\ attendance' = UpsertAll(attendance, req[w].values)
              /\ LET r == [req[w] EXCEPT !.upserted = TRUE]
                 IN req' = [req EXCEPT ![w] =
                              IF r.route = "teachers"
                              THEN CallAddTeacherXP(r, r.tid, XP_ATTENDANCE)
                              ELSE Reply(r, 200, "Saved", None, Len(r.records), {})]
    /\ UNCHANGED <<teachers, teacher_batches, marks, nreq>>

----------------------------------------------------------------------------
(* GET /api/teachers/:id/attendance (teachers router) *)

GetAttendanceEntry(r) ==
    IF ~isValidDateString(r.date)
    THEN Reply(r, 400, "Invalid date", None, 0, {})
    ELSE IF r.batch_id = 0
    THEN Reply(r, 400, "batch_id required", None, 0, {})
    ELSE IF ~isAdmin(r.user) /\ ~isSelf(r.user, r.tid)
    THEN Reply(r, 403, "Forbidden", None, 0, {})
    ELSE IF ~isAdmin(r.user)
    THEN [r EXCEPT !.pc = "has_batch"]
    ELSE [r EXCEPT !.pc = "select_att"]

GetAttendance(w) ==
    /\ req[w].pc = "idle"
    /\ nreq < MaxRequests
    /\ \E user \in Users, tid \in TeacherIds, date \in DateInputs,
          batch_id \in BatchIdInputs :
         req' = [req EXCEPT ![w] =
                    GetAttendanceEntry(
                        NewRequest(w, "att_get", "teachers", user, tid, date, batch_id,
                                   [isArray |-> FALSE, records |-> <<>>]))]
    /\ nreq' = nreq + 1
    /\ UNCHANGED <<teachers, teacher_batches, attendance, marks>>

SelectAttendance(w) ==
    /\ req[w].pc = "select_att"
    /\ \E outcome \in StoreOutcomes :
         req' = [req EXCEPT ![w] =
                    IF outcome = "error" THEN ServerError(req[w])
                    ELSE Reply(req[w], 200, None, None, 0,
                               AttendanceRows(attendance, req[w].date, req[w].batch_id))]
    /\ UNCHANGED <<teachers, teacher_batches, attendance, marks, nreq>>

----------------------------------------------------------------------------
(* Admin assignment: POST /api/teachers/:id/batches, DELETE /:id/batches/:batchId *)

\* a request in flight notes the changes of the assignment it depends on
NoteAssignment(r, teacherId, batchId, present) ==
    IF r.pc \notin {"idle", "done"} /\ r.tid = teacherId /\ r.batch_id = batchId
    THEN [r EXCEPT !.everAssigned = @ \/ present,
                   !.alwaysAssigned = @ /\ present]
    ELSE r

AssignBatch ==
    /\ nreq < MaxRequests
    /\ \E user \in Users, teacherId \in TeacherIds, batchId \in BatchIds :
         IF isAdmin(user)
         THEN /\ teacher_batches' = teacher_batches \cup {<<teacherId, batchId>>}
              /\ req' = [w \in Workers |->
                            NoteAssignment(req[w], teacherId, batchId, TRUE)]
         ELSE UNCHANGED <<teacher_batches, req>>
    /\ nreq' = nreq + 1
    /\ UNCHANGED <<teachers, attendance, marks>>

UnassignBatch ==
    /\ nreq < MaxRequests
    /\ \E user \in Users, teacherId \in TeacherIds, batchId \in BatchIds :
         IF isAdmin(user)
         THEN /\ teacher_batches' = teacher_batches \ {<<teacherId, batchId>>}
              /\ req' = [w \in Workers |->
                            NoteAssignment(req[w], teacherId, batchId, FALSE)]
         ELSE UNCHANGED <<teacher_batches, req>>
    /\ nreq' = nreq + 1
    /\ UNCHANGED <<teachers, attendance, marks>>

----------------------------------------------------------------------------
(* POST /api/marks (marks router) and POST /api/teachers/:tid/marks, which    *)
(* forces recorded_by, wraps res.json to award XP and forwards to it          *)

\* the teachers router runs auth before it forwards; the marks router has no
\* auth middleware, so its caller may be anybody
Anonymous == [id |-> 0, role |-> None]
MarksRoutes == {"teachers", "marks"}

AssessmentInputs == {"Midterm", ""}
MarkRecordInputs ==
    {[student_id |-> 1, marks |-> 40], [student_id |-> 1, marks |-> 75],
     [student_id |-> 3, marks |-> 40], [student_id |-> 0, marks |-> 40]}
MarkRecordsInputs ==
    {[isArray |-> FALSE, records |-> <<>>], [isArray |-> TRUE, records |-> <<>>]}
    \cup {[isArray |-> TRUE, records |-> s] : s \in SeqsUpTo(MarkRecordInputs, MaxRecords)}

\* a wrapper that awards on every response
MessageAwardsXP_Always(message) == TRUE

\* /mark|save|saved|success/i.test(String(message)) on the messages of the
\* marks router
MessageAwardsXP(message) ==
    CASE message = "Marks saved" -> TRUE
      [] message = "batch_id and assessment are required" -> FALSE
      [] message = "No records provided" -> FALSE
      [] message = "Each record must include student_id" -> FALSE
      [] message = "Database error" -> FALSE
      [] OTHER -> FALSE

\* a wrapper that pays per record
MarksJson_PerRecord(r, status, message, count) ==
    LET body == [status |-> status, message |-> message, fields |-> None,
                 count |-> count, rows |-> {}]
    IN IF r.route = "teachers" /\ MessageAwardsXP(message)
       THEN CallAddTeacherXP([r EXCEPT !.body = body], r.tid, XP_MARKS * count)
       ELSE [r EXCEPT !.pc = "done", !.resp = body]

\* res.json of the marks handler: on the teachers route the wrapper awards
\* XP_MARKS first when the message says success, then sends the body
MarksJson(r, status, message, count) ==
    LET body == [status |-> status, message |-> message, fields |-> None,
                 count |-> count, rows |-> {}]
    IN IF r.route = "teachers" /\ MessageAwardsXP(message)
       THEN CallAddTeacherXP([r EXCEPT !.body = body], r.tid, XP_MARKS)
       ELSE [r EXCEPT !.pc = "done", !.resp = body]

\* finally { if (conn) conn.release() }
Release(r) ==
    IF r.conn = "held"
    THEN [r EXCEPT !.conn = "released", !.releases = @ + 1]
    ELSE r

\* the unique key of table marks
MarksKey(m) == <<m.student_id, m.batch_id, m.assessment>>

\* INSERT INTO marks ... ON DUPLICATE KEY UPDATE subject, marks, semester,
\* recorded_by, max_marks, updated_at (exam_date is not among them)
UpsertMarksRow(tbl, v) ==
    LET same == {m \in tbl : MarksKey(m) = MarksKey(v)}
    IN IF same = {} THEN tbl \cup {v}
       ELSE (tbl \ same) \cup {[m EXCEPT !.marks = v.marks,
                                         !.recorded_by = v.recorded_by] : m \in same}

\* the parameters of the upsert of record idx
MarksRow(r) ==
    [student_id |-> r.records[r.idx].student_id,
     batch_id |-> r.batch_id,
     assessment |-> r.assessment,
     exam_date |-> r.date,
     marks |-> r.records[r.idx].marks,
     recorded_by |-> IF r.route = "teachers" THEN r.tid ELSE 0]

\* the for loop at record idx: the rollback for a record without student_id,
\* the upsert of the record, or the commit after the last one
MarksLoop(r) ==
    IF r.idx > Len(r.records) THEN [r EXCEPT !.pc = "m_commit"]
    ELSE IF r.records[r.idx].student_id = 0 THEN [r EXCEPT !.pc = "m_rollback_400"]
    ELSE [r EXCEPT !.pc = "m_upsert"]

\* buildPayload and the two validations, up to await db.getConnection()
PostMarksEntry(r) ==
    IF r.batch_id = 0 \/ r.assessment = ""
    THEN MarksJson(r, 400, "batch_id and assessment are required", 0)
    ELSE IF Len(r.records) = 0
    THEN MarksJson(r, 400, "No records provided", 0)
    ELSE [r EXCEPT !.pc = "m_get_conn"]

PostMarks(w) ==
    /\ req[w].pc = "idle"
    /\ nreq < MaxRequests
    /\ \E route \in MarksRoutes, user \in Users \cup {Anonymous}, tid \in TeacherIds,
          date \in {"2024-01-15"}, batch_id \in BatchIdInputs,
          assessment \in AssessmentInputs, recs \in MarkRecordsInputs :
         /\ route = "teachers" => user # Anonymous
         /\ route = "marks" => tid = 1
         /\ req' = [req EXCEPT ![w] =
                      PostMarksEntry(
                          [NewRequest(w, "marks_post", route, user,
                                      IF route = "marks" THEN 0 ELSE tid,
                                      date, batch_id, recs)
                             EXCEPT !.assessment = assessment,
                                    !.marksBefore = marks])]
    /\ nreq' = nreq + 1
    /\ UNCHANGED <<teachers, teacher_batches, attendance, marks>>

\* conn = await db.getConnection(); on an error conn stays undefined
GetConnection(w) ==
    /\ req[w].pc = "m_get_conn"
    /\ \E outcome \in StoreOutcomes :
         req' = [req EXCEPT ![w] =
                    IF outcome = "error"
                    THEN MarksJson([req[w] EXCEPT !.storeError = TRUE],
                                   500, "Database error", 0)
                    ELSE [req[w] EXCEPT !.pc = "m_begin", !.conn = "held"]]
    /\ UNCHANGED <<teachers, teacher_batches, attendance, marks, nreq>>

\* await conn.beginTransaction(), then the first turn of the loop
BeginTransaction(w) ==
    /\ req[w].pc = "m_begin"
    /\ \E outcome \in StoreOutcomes :
         req' = [req EXCEPT ![w] =
                    IF outcome = "error"
                    THEN [req[w] EXCEPT !.pc = "m_rollback_500", !.storeError = TRUE]
                    ELSE MarksLoop([req[w] EXCEPT !.txn = "open", !.idx = 1,
                                                  !.txnMarks = marks])]
    /\ UNCHANGED <<teachers, teacher_batches, attendance, marks, nreq>>

\* the upsert on a connection without the transaction: every statement is
\* stored at once
UpsertMarks_Autocommit(w) ==
    /\ req[w].pc = "m_upsert"
    /\ \E outcome \in StoreOutcomes :
         IF outcome = "error"
         THEN /\ req' = [req EXCEPT ![w] =
                            [req[w] EXCEPT !.pc = "m_rollback_500", !.storeError = TRUE]]
              /\ UNCHANGED marks
         ELSE /\ marks' = UpsertMarksRow(marks, MarksRow(req[w]))
              /\ req' = [req EXCEPT ![w] =
                            MarksLoop([req[w] EXCEPT
                                         !.txnMarks = UpsertMarksRow(@, MarksRow(req[w])),
                                         !.idx = @ + 1])]
    /\ UNCHANGED <<teachers, teacher_batches, attendance, nreq>>

\* await conn.query(upsertSql, ...) of one record, then the next turn
UpsertMarks(w) ==
    /\ req[w].pc = "m_upsert"
    /\ \E outcome \in StoreOutcomes :
         req' = [req EXCEPT ![w] =
                    IF outcome = "error"
                    THEN [req[w] EXCEPT !.pc = "m_rollback_500", !.storeError = TRUE]
                    ELSE MarksLoop([req[w] EXCEPT
                                       !.txnMarks = UpsertMarksRow(@, MarksRow(req[w])),
                                       !.idx = @ + 1])]
    /\ UNCHANGED <<teachers, teacher_batches, attendance, marks, nreq>>

\* await conn.commit(), res.json({message: "Marks saved", count}), and the
\* finally, which runs as soon as res.json has returned its promise
CommitMarks(w) ==
    /\ req[w].pc = "m_commit"
    /\ \E outcome \in StoreOutcomes :
         IF outcome = "error"
         THEN /\ req' = [req EXCEPT ![w] =
                            [req[w] EXCEPT !.pc = "m_rollback_500", !.storeError = TRUE]]
              /\ UNCHANGED marks
         ELSE /\ marks' = req[w].txnMarks
              /\ req' = [req EXCEPT ![w] =
                            MarksJson(Release([req[w] EXCEPT !.txn = "committed"]),
                                      200, "Marks saved", Len(req[w].records))]
    /\ UNCHANGED <<teachers, teacher_batches, attendance, nreq>>

\* the release at the end of the try block in place of the finally: the
\* early return of the 400 leaves the try block before it
RollbackInvalidRecord_ReturnBeforeRelease(w) ==
    /\ req[w].pc = "m_rollback_400"
    /\ \E outcome \in StoreOutcomes :
         req' = [req EXCEPT ![w] =
                    IF outcome = "error"
                    THEN [req[w] EXCEPT !.pc = "m_rollback_500", !.storeError = TRUE]
                    ELSE MarksJson([req[w] EXCEPT !.txn = "rolledback"],
                                   400, "Each record must include student_id", 0)]
    /\ UNCHANGED <<teachers, teacher_batches, attendance, marks, nreq>>

\* await conn.rollback() for a record without student_id, then the 400; a
\* failing rollback throws into the catch
RollbackInvalidRecord(w) ==
    /\ req[w].pc = "m_rollback_400"
    /\ \E outcome \in StoreOutcomes :
         req' = [req EXCEPT ![w] =
                    IF outcome = "error"
                    THEN [req[w] EXCEPT !.pc = "m_rollback_500", !.storeError = TRUE]
                    ELSE MarksJson(Release([req[w] EXCEPT !.txn = "rolledback"]),
                                   400, "Each record must include student_id", 0)]
    /\ UNCHANGED <<teachers, teacher_batches, attendance, marks, nreq>>

\* catch (err): await conn.rollback().catch(() => {}), the 500, the finally.
\* A transaction whose rollback failed ends with its connection
RollbackOnError(w) ==
    /\ req[w].pc = "m_rollback_500"
    /\ \E outcome \in StoreOutcomes :
         req' = [req EXCEPT ![w] =
                    MarksJson(Release([req[w] EXCEPT
                                          !.txn = IF @ = "open" THEN "rolledback" ELSE @]),
                              500, "Database error", 0)]
    /\ UNCHANGED <<teachers, teacher_batches, attendance, marks, nreq>>

MarksStep(w) ==
    \/ GetConnection(w) \/ BeginTransaction(w) \/ UpsertMarks(w)
    \/ CommitMarks(w) \/ RollbackInvalidRecord(w) \/ RollbackOnError(w)

StoreWith(xp1) ==
    /\ teachers = [t \in TeacherIds |->
                      [xp |-> IF t = 1 THEN xp1 ELSE 0, level |-> DEFAULT_LEVEL,
                       next_xp_target |-> DEFAULT_NEXT_XP_TARGET]]
    /\ teacher_batches = {<<1, 1>>}
    /\ attendance = {}
    /\ marks = {}
    /\ req = [w \in Workers |-> Idle]
    /\ nreq = 0

\* two new teachers
InitStore == StoreWith(0)

\* teacher 1 has saved attendance 24 times and is one award short of level 2
InitSchool == StoreWith(24 * XP_ATTENDANCE)

\* teacher 1 has reached level 8 and is one attendance award short of level 9
InitVeteran ==
    /\ teachers = [t \in TeacherIds |->
                      IF t = 1
                      THEN [xp |-> DEFAULT_NEXT_XP_TARGET + 7 * LEVEL_STEP - XP_ATTENDANCE,
                            level |-> 8,
                            next_xp_target |-> DEFAULT_NEXT_XP_TARGET + 7 * LEVEL_STEP]
                      ELSE [xp |-> 0, level |-> DEFAULT_LEVEL,
                            next_xp_target |-> DEFAULT_NEXT_XP_TARGET]]
    /\ teacher_batches = {<<1, 1>>}
    /\ attendance = {}
    /\ marks = {}
    /\ req = [w \in Workers |-> Idle]
    /\ nreq = 0

\* Overlapping awards around the top level
VeteranAmounts == {XP_ATTENDANCE, 5000}
NextVeteran ==
    \E w \in Workers : Award(w, MaxVeteranAwards, VeteranAmounts) \/ XPStep(w) \/ Finish(w)
SpecVeteran == InitVeteran /\ [][NextVeteran]_vars

\* Overlapping awards
NextXP == \E w \in Workers : Award(w, MaxOverlapAwards, OverlapAmounts) \/ XPStep(w) \/ Finish(w)
SpecXP == InitStore /\ [][NextXP]_vars

\* Awards one after another
NextSerial == Award(1, MaxAwards, AwardAmounts) \/ XPStep(1) \/ Finish(1)
SpecSerial == InitStore /\ [][NextSerial]_vars

\* The request workflow: one request in flight, admin assignment in between
Next ==
    \/ PostAttendance(1)
    \/ AwaitTeacherHasBatch(1)
    \/ SelectStudents(1)
    \/ UpsertAttendance(1)
    \/ GetAttendance(1)
    \/ SelectAttendance(1)
    \/ XPStep(1)
    \/ Finish(1)
    \/ AssignBatch
    \/ UnassignBatch
Spec == InitSchool /\ [][Next]_vars

\* Attendance and marks submissions, one request in flight
NextSchool ==
    \/ PostAttendance(1) \/ AwaitTeacherHasBatch(1) \/ SelectStudents(1)
    \/ UpsertAttendance(1)
    \/ PostMarks(1) \/ MarksStep(1)
    \/ XPStep(1) \/ Finish(1)
SpecSchool == InitSchool /\ [][NextSchool]_vars

\* The marks workflow: one request in flight
NextMarks == PostMarks(1) \/ MarksStep(1) \/ XPStep(1) \/ Finish(1)
SpecMarks == InitSchool /\ [][NextMarks]_vars

----------------------------------------------------------------------------
(* Properties of the XP / leveling routine *)

XPTuple(xp, level, next) == [xp |-> xp, level |-> level, next_xp_target |-> next]

\* C1: in every reachable state, also when awards overlap, the level of every
\* teacher is an integer between 1 and 10.
C1_LevelWithinBounds ==
    \A t \in DOMAIN teachers : teachers[t].level \in DEFAULT_LEVEL..MAX_LEVEL

\* overlapping awards have brought a teacher to level 10 with more xp than the
\* target, the state from which an uncapped loop would go on
C1_Witness ==
    /\ teachers[1].level = MAX_LEVEL
    /\ teachers[1].xp >= teachers[1].next_xp_target
    /\ \E w \in Workers : req[w].overlapped

\* The transition of the specification: add the amount, then while level < 10
\* and xp >= next_xp_target: subtract, increment, add 150 unless level became 10
RECURSIVE SpecLevelUp(_)
SpecLevelUp(s) ==
    IF s.level < 10 /\ s.xp >= s.next_xp_target
    THEN SpecLevelUp(XPTuple(s.xp - s.next_xp_target, s.level + 1,
                             IF s.level + 1 = 10 THEN s.next_xp_target
                                                 ELSE s.next_xp_target + 150))
    ELSE s
SpecAward(s, amount) == SpecLevelUp([s EXCEPT !.xp = @ + amount])

AwardDone(w) == req[w].kind = "award" /\ req[w].pc = "done" /\ ~req[w].xpError

\* C9: an award run on its own leaves the stored tuple equal to the
\* specification's transition applied to the tuple at its start; from
\* (0, 1, 250), 250 gives (0, 2, 400) and 1000 gives (350, 3, 550).
C9_AwardMatchesSpec ==
    AwardDone(1) =>
        /\ teachers[req[1].teacherId] = SpecAward(req[1].xpStart, req[1].amount)
        /\ (req[1].xpStart = XPTuple(0, 1, 250) /\ req[1].amount = 250)
              => teachers[req[1].teacherId] = XPTuple(0, 2, 400)
        /\ (req[1].xpStart = XPTuple(0, 1, 250) /\ req[1].amount = 1000)
              => teachers[req[1].teacherId] = XPTuple(350, 3, 550)

\* the award of 1000 from the initial tuple has completed with two level-ups
C9_Witness ==
    /\ AwardDone(1)
    /\ req[1].xpStart = XPTuple(0, 1, 250)
    /\ req[1].amount = 1000
    /\ req[1].iters = 2

\* one step of the stored tuple: no level-up and the same target, a level-up
\* below 10 with the target raised by 150, or the level-up to 10 with the
\* same target
TargetStepOK(a, b) ==
    \/ b.level = a.level /\ b.next_xp_target = a.next_xp_target
    \/ b.level = a.level + 1 /\ b.level < 10
       /\ b.next_xp_target = a.next_xp_target + 150
    \/ b.level = a.level + 1 /\ b.level = 10
       /\ b.next_xp_target = a.next_xp_target

\* C10 as stated: every change of a stored next_xp_target is a level-up step of
\* +150 below level 10 and of 0 at level 10, so it never decreases.
C10_TargetStepsAlways ==
    [][\A t \in DOMAIN teachers : TargetStepOK(teachers[t], teachers'[t])]_vars

\* C10 amended: the same, for a teacher whose awards in progress have not
\* overlapped another award to that teacher.
C10_TargetStepsUnlessOverlapped ==
    [][\A t \in DOMAIN teachers :
          (\A w \in Workers : InAward(req[w], t) => ~req[w].overlapped)
             => TargetStepOK(teachers[t], teachers'[t])]_vars

\* an award that nothing overlapped has written the level-up to level 10
C10_Witness ==
    \E w \in Workers :
        /\ req[w].kind = "award" /\ req[w].pc = "done"
        /\ ~req[w].overlapped /\ req[w].iters >= 1
        /\ teachers[req[w].teacherId].level = MAX_LEVEL
        /\ teachers[req[w].teacherId].next_xp_target = req[w].next_xp_target

----------------------------------------------------------------------------
(* Properties of the attendance workflow *)

R == req[1]

PostDone == R.kind = "att_post" /\ R.pc = "done"
GetDone == R.kind = "att_get" /\ R.pc = "done"

\* the request passes the shape checks at the entry of the handler
ShapeOK(r) ==
    /\ isValidDateString(r.date)
    /\ r.batch_id # 0
    /\ r.kind = "att_post" => r.isArray /\ Len(r.records) > 0

InBatch(sid, batch_id) == sid \in DOMAIN students /\ students[sid] = batch_id

\* valid date, batch_id, and every record names a student of the batch
ValidPayload(r) ==
    /\ ShapeOK(r)
    /\ \A i \in DOMAIN r.records : InBatch(r.records[i].student_id, r.batch_id)

\* the principal may write for the batch during the whole request
Authorized(r) ==
    IF r.route = "admin" THEN r.user.role = "admin"
    ELSE r.user.role = "admin" \/ (r.user.id = r.tid /\ r.alwaysAssigned)

NoWrite(r) == ~r.upserted /\ attendance = r.attBefore
NoXP(r) == teachers = r.xpBefore

Normalize(status) == IF status = "Present" THEN "Present" ELSE "Absent"

\* the status of the last record of the payload for student sid
LastStatus(records, sid) ==
    LET last == CHOOSE i \in DOMAIN records :
                   /\ records[i].student_id = sid
                   /\ \A j \in DOMAIN records : records[j].student_id = sid => j <= i
    IN records[last].status

SubmittedStudents(r) == {r.records[i].student_id : i \in DOMAIN r.records}

StoredFor(att, sid, date) ==
    {a \in att : a.student_id = sid /\ a.attendance_date = DATE(date)}

\* C2: on POST /api/teachers/:id/attendance a valid request of a non-admin
\* teacher who has no assignment to batch_id gets the 403 denial (the store
\* permitting) and writes no row and awards no XP; the same request of an
\* admin is saved, whatever the assignments are.
C2_UnassignedDeniedAdminSaved ==
    (PostDone /\ R.route = "teachers" /\ ValidPayload(R)) =>
        /\ (R.user.role = "teacher" /\ (R.user.id # R.tid \/ ~R.everAssigned)) =>
              /\ NoWrite(R) /\ NoXP(R)
              /\ ~R.storeError => R.resp.status = 403
        /\ (R.user.role = "admin" /\ ~R.storeError) =>
              /\ R.resp.status = 200
              /\ R.upserted

\* teacher 1 asked to write for a batch of somebody else and was told that he
\* is not assigned to it
C2_Witness ==
    /\ PostDone /\ R.route = "teachers" /\ ValidPayload(R)
    /\ R.user.role = "teacher" /\ R.user.id = R.tid /\ ~R.everAssigned
    /\ \E t \in TeacherIds : <<t, R.batch_id>> \in teacher_batches
    /\ R.resp.status = 403
    /\ R.resp.message = "Forbidden: not assigned to batch"

\* C4: on the teacher-scoped POST and GET a principal who is not an admin and
\* whose id is not the path id is denied with 403, also when the path teacher
\* is assigned to the batch: nothing is written, no rows are returned and no
\* teacher gains XP.
C4_OtherTeacherDenied ==
    ((PostDone \/ GetDone) /\ R.route = "teachers"
        /\ ~isAdmin(R.user) /\ R.user.id # R.tid) =>
        /\ R.resp.status = 403
        /\ NoWrite(R) /\ NoXP(R)
        /\ R.resp.rows = {}

HasForeignStudent(r) ==
    \E i \in DOMAIN r.records :
        /\ r.records[i].student_id # 0
        /\ ~InBatch(r.records[i].student_id, r.batch_id)

\* C5: a submission with a student who is not of batch_id writes none of its
\* records, and an authorized principal gets the validation failure for it.
C5_ForeignStudentRejectsAll ==
    (PostDone /\ ShapeOK(R) /\ HasForeignStudent(R)) =>
        /\ NoWrite(R)
        /\ (Authorized(R) /\ ~R.storeError) =>
              /\ R.resp.status = 400
              /\ R.resp.message = "Validation failed"
              /\ R.resp.fields = "records: Some student(s) not in selected batch"

\* a payload with a student of the batch and one of another batch was refused
C5_Witness ==
    /\ PostDone /\ ShapeOK(R) /\ HasForeignStudent(R)
    /\ \E i \in DOMAIN R.records : InBatch(R.records[i].student_id, R.batch_id)
    /\ R.resp.status = 400
    /\ attendance = R.attBefore

\* C6: there is at most one attendance row per (student, date), and a saved
\* submission of Absent for a key stored as Present leaves for that key the
\* one row with Absent and the recorder of this submission.
C6_OneRowPerStudentDate ==
    /\ \A a, b \in attendance :
          (a.student_id = b.student_id /\ a.attendance_date = b.attendance_date)
             => a = b
    /\ (PostDone /\ R.resp.status = 200) =>
          \A sid \in SubmittedStudents(R) :
              ((\E x \in StoredFor(R.attBefore, sid, R.date) : x.status = "Present")
                 /\ LastStatus(R.records, sid) = "Absent")
              => StoredFor(attendance, sid, R.date) =
                    {[student_id |-> sid, attendance_date |-> DATE(R.date),
                      status |-> "Absent", recorded_by |-> R.user.id]}

\* Present by one principal was overwritten with Absent by another
C6_Witness ==
    /\ PostDone /\ R.resp.status = 200
    /\ \E sid \in SubmittedStudents(R) :
          /\ \E x \in StoredFor(R.attBefore, sid, R.date) :
                 x.status = "Present" /\ x.recorded_by # R.user.id
          /\ \E y \in StoredFor(attendance, sid, R.date) : y.status = "Absent"

StatusRows(att) ==
    {[student_id |-> a.student_id, attendance_date |-> a.attendance_date,
      status |-> a.status] : a \in att}

SamePayloadTwice(r) ==
    /\ r.prev.ok
    /\ r.prev.date = r.date /\ r.prev.batch_id = r.batch_id
    /\ r.prev.records = r.records

\* C7: a saved submission whose payload is the payload of the saved
\* submission before it leaves the rows as they were after the first: the
\* same number of rows, the same status for every (student, date).
C7_SecondSubmissionChangesNothing ==
    (PostDone /\ R.resp.status = 200 /\ SamePayloadTwice(R)) =>
        /\ StatusRows(attendance) = StatusRows(R.attBefore)
        /\ Cardinality(attendance) = Cardinality(R.attBefore)

\* the same two records were saved twice, by different principals
C7_Witness ==
    /\ PostDone /\ R.resp.status = 200 /\ SamePayloadTwice(R)
    /\ Len(R.records) = 2
    /\ \E a \in R.attBefore : a.recorded_by # R.user.id

\* C8, amended: a valid submission of an authorized principal is saved (the
\* store permitting), and the read for its (date, batch_id) then has exactly
\* one row for every student of the payload, with the status of the student's
\* last record: Present if that is exactly Present, Absent otherwise.
C8_ValidSubmissionReadBack ==
    (PostDone /\ ValidPayload(R) /\ Authorized(R) /\ ~R.storeError) =>
        /\ R.resp.status = 200
        /\ \A sid \in SubmittedStudents(R) :
              LET rows == {x \in AttendanceRows(attendance, R.date, R.batch_id) :
                              x.student_id = sid}
              IN /\ Cardinality(rows) = 1
                 /\ \A x \in rows : x.status = Normalize(LastStatus(R.records, sid))

\* two students of the batch were saved in one submission, one of them as Late
C8_Witness ==
    /\ PostDone /\ ValidPayload(R) /\ Authorized(R) /\ R.resp.status = 200
    /\ Cardinality(SubmittedStudents(R)) = 2
    /\ \E i \in DOMAIN R.records : R.records[i].status = "Late"
    /\ Cardinality(AttendanceRows(attendance, R.date, R.batch_id)) = 2

\* C8 as it is stated: the read has exactly one row for every student of the
\* payload and the row carries the status that was submitted for the student.
C8_ReadBackSubmittedStatus ==
    (PostDone /\ ValidPayload(R) /\ Authorized(R) /\ ~R.storeError) =>
        /\ R.resp.status = 200
        /\ \A i \in DOMAIN R.records :
              LET rows == {x \in AttendanceRows(attendance, R.date, R.batch_id) :
                              x.student_id = R.records[i].student_id}
              IN /\ Cardinality(rows) = 1
                 /\ \A x \in rows : x.status = R.records[i].status

----------------------------------------------------------------------------
(* Properties of the marks workflow *)

MarksDone == R.kind = "marks_post" /\ R.pc = "done"

\* admin, or the teacher of the path id who is assigned to the batch
MarksAuthorized(r) ==
    \/ r.user.role = "admin"
    \/ /\ r.user.role = "teacher"
       /\ r.user.id = r.tid
       /\ <<r.tid, r.batch_id>> \in teacher_batches

\* C3: a marks submission of a principal who is neither an admin nor the
\* teacher :tid assigned to batch_id is denied: it is not saved, the marks
\* table is as before and no teacher has gained XP.
C3_UnauthorizedMarksDenied ==
    (MarksDone /\ ~MarksAuthorized(R)) =>
        /\ R.resp.status # 200
        /\ marks = R.marksBefore
        /\ teachers = R.xpBefore

----------------------------------------------------------------------------
(* Properties of awards at the top level *)

\* worker w takes a step of an award that began when teacher t was at level
\* 10, and t is at level 10 now
TopLevelStep(w, t) ==
    /\ InAward(req[w], t)
    /\ req[w].xpStart.level = MAX_LEVEL
    /\ teachers[t].level = MAX_LEVEL
    /\ req'[w].pc # req[w].pc

\* what a step of such an award does: the UPDATE of addTeacherXP adds the
\* amount, no step changes level or next_xp_target or enters the level-up
\* loop, and the award ends with exactly its amount added
TopLevelEffect(w, t) ==
    /\ teachers'[t].level = teachers[t].level
    /\ teachers'[t].next_xp_target = teachers[t].next_xp_target
    /\ teachers'[t].xp =
          IF req[w].pc = "xp_add" /\ req'[w].pc = "xp_select"
          THEN teachers[t].xp + req[w].amount
          ELSE teachers[t].xp
    /\ req'[w].pc # "xp_update"
    /\ (req'[w].pc = "done" /\ ~req'[w].xpError) =>
          teachers'[t] = [req[w].xpStart EXCEPT !.xp = @ + req[w].amount]

\* C11 as stated: once a teacher is at level 10, every further award adds its
\* amount to xp, leaves level and next_xp_target unchanged and triggers no
\* leveling.
C11_TopLevelOnlyAccrues ==
    [][\A w \in Workers, t \in TeacherIds :
          TopLevelStep(w, t) => TopLevelEffect(w, t)]_vars

\* C11 amended: the same, for the awards that no other award to the same
\* teacher overlaps.
C11_TopLevelOnlyAccruesAlone ==
    [][\A w \in Workers, t \in TeacherIds :
          (TopLevelStep(w, t) /\ ~req[w].overlapped /\ ~req'[w].overlapped)
             => TopLevelEffect(w, t)]_vars

\* an award to a teacher at level 10 has ended with xp above next_xp_target
C11_Witness ==
    \E w \in Workers :
        /\ req[w].kind = "award" /\ req[w].pc = "done" /\ ~req[w].xpError
        /\ ~req[w].overlapped
        /\ req[w].xpStart.level = MAX_LEVEL
        /\ teachers[req[w].teacherId].level = MAX_LEVEL
        /\ teachers[req[w].teacherId].xp = req[w].xpStart.xp + req[w].amount
        /\ teachers[req[w].teacherId].xp > teachers[req[w].teacherId].next_xp_target

----------------------------------------------------------------------------
(* Properties of the award made by a submission *)

\* the teachers row of teacher t is the row at the start of the request with
\* one award of amount applied, and no other teacher's row has changed
AwardedOnce(r, t, amount) ==
    teachers = [r.xpBefore EXCEPT ![t] = SpecAward(@, amount)]

C13_XPFailureKeepsSuccess ==
    R.xpError =>
        /\ R.pc = "done"
        /\ R.resp.status = 200
        /\ R.resp.count = Len(R.records)
        /\ R.kind = "att_post" =>
              /\ R.resp.message = "Saved"
              /\ R.upserted
              /\ attendance = UpsertAll(R.attBefore, R.values)
        /\ R.kind = "marks_post" =>
              /\ R.resp.message = "Marks saved"
              /\ R.txn = "committed"
              /\ marks = R.txnMarks

\* the XP update of an attendance submission of two records failed after the
\* rows were written
C13_Witness ==
    /\ PostDone /\ R.xpError
    /\ R.resp.status = 200 /\ R.resp.count = 2
    /\ attendance # R.attBefore

\* the write of request r has returned: the upsert statement of an attendance
\* submission, the commit of a marks submission
WriteCompleted(r) ==
    \/ r.kind = "att_post" /\ r.upserted
    \/ r.kind = "marks_post" /\ r.txn = "committed"

InXPUpdate(r) == r.pc \in {"xp_add", "xp_select", "xp_update"}

\* C14: the XP update of a request is in progress only after the request's
\* write has returned; a request that has ended with 400, 403 or 500 has left
\* every teachers row as it was; and every step that changes a teachers row
\* is a step of the XP update of such a request.
C14_XPOnlyAfterWrite ==
    /\ [](InXPUpdate(R) => WriteCompleted(R))
    /\ []((R.pc = "done" /\ R.resp.status \in {400, 403, 500}) => teachers = R.xpBefore)
    /\ [][teachers' # teachers => (InXPUpdate(R) /\ WriteCompleted(R))]_vars

\* a marks submission through the teachers router has ended with the 500 of a
\* failed statement, its transaction rolled back
C14_Witness ==
    /\ MarksDone /\ R.route = "teachers"
    /\ R.resp.status = 500 /\ R.txn = "rolledback"
    /\ teachers = R.xpBefore

----------------------------------------------------------------------------
(* Order of authorization and validation *)

\* the principal is not an admin and is not the teacher of the path id with an
\* assignment to batch_id at any time of the request
ToBeDenied(r) ==
    /\ ~isAdmin(r.user)
    /\ r.route # "admin" => (~isSelf(r.user, r.tid) \/ ~r.everAssigned)

\* C15: an attendance submission of a principal who is to be denied ends with
\* the authorization failure, never with a validation failure, whatever its
\* date and records are (the assignment lookup not failing).
C15_DeniedBeforeValidation ==
    (PostDone /\ ToBeDenied(R) /\ ~R.storeError) => R.resp.status = 403

----------------------------------------------------------------------------
(* Atomicity of a marks submission *)

\* the marks table after the upserts of records i, i+1, ... of request r
RECURSIVE MarksAfter(_, _, _)
MarksAfter(tbl, r, i) ==
    IF i > Len(r.records) THEN tbl
    ELSE MarksAfter(UpsertMarksRow(tbl, MarksRow([r EXCEPT !.idx = i])), r, i + 1)

\* some record of the submission fails: it has no student_id, or a statement
\* of the request met a store error
SomeRecordFails(r) ==
    \/ \E i \in DOMAIN r.records : r.records[i].student_id = 0
    \/ r.storeError

\* C16: while the records of a marks submission are being written the marks
\* table is as it was before; when some record fails (no student_id, or a
\* store error) the table is as before in the end too, also for the records
\* written earlier in the request; when none fails the request is saved and
\* the table holds every record: the upserts of all records applied in order.
C16_MarksAllOrNothing ==
    /\ (R.kind = "marks_post" /\ R.pc # "done" /\ R.txn # "committed")
         => marks = R.marksBefore
    /\ MarksDone =>
         /\ SomeRecordFails(R) => (marks = R.marksBefore /\ R.resp.status # 200)
         /\ (~SomeRecordFails(R) /\ R.batch_id # 0 /\ R.assessment # ""
               /\ Len(R.records) > 0)
              => /\ R.resp.status = 200
                 /\ marks = MarksAfter(R.marksBefore, R, 1)
                 /\ \A i \in DOMAIN R.records :
                       \E m \in marks :
                          /\ m.student_id = R.records[i].student_id
                          /\ m.batch_id = R.batch_id
                          /\ m.assessment = R.assessment

\* the second record had no student_id after the first had been written in
\* the transaction: the request was refused and the table is as before
C16_Witness ==
    /\ MarksDone /\ R.resp.status = 400
    /\ R.resp.message = "Each record must include student_id"
    /\ R.idx = 2
    /\ R.txnMarks # R.marksBefore
    /\ marks = R.marksBefore

----------------------------------------------------------------------------
(* The race of two awards *)

\* exactly two awards were started, one on each worker, for the same teacher,
\* and both have run to their end without a store error
TwoAwardsDone ==
    /\ nreq = 2
    /\ \A w \in Workers : AwardDone(w)
    /\ req[1].teacherId = req[2].teacherId

\* the two awards one after the other, from the tuple of a new teacher
SerialResult(first, second) ==
    SpecAward(SpecAward(XPTuple(0, DEFAULT_LEVEL, DEFAULT_NEXT_XP_TARGET), first),
              second)

\* the stored tuple is the result of neither order
LostUpdate ==
    /\ TwoAwardsDone
    /\ teachers[req[1].teacherId] # SerialResult(req[1].amount, req[2].amount)
    /\ teachers[req[1].teacherId] # SerialResult(req[2].amount, req[1].amount)

\* C17: two awards to one teacher can end with a tuple that neither serial
\* order gives (the witness is such an end), and they end so only when their
\* steps overlapped: awards run one after the other give the serial result.
C17_LostUpdateOnlyByOverlap ==
    LostUpdate => (req[1].overlapped /\ req[2].overlapped)

\* two overlapping awards have ended and XP of one of them is lost: the
\* stored tuple holds less than the serial result
C17_Witness ==
    /\ LostUpdate
    /\ req[1].overlapped /\ req[2].overlapped
    /\ teachers[req[1].teacherId].level
          <= SerialResult(req[1].amount, req[2].amount).level
    /\ teachers[req[1].teacherId] # SerialResult(req[1].amount, req[2].amount)

----------------------------------------------------------------------------
(* Status values *)

\* C18: every stored attendance row has status Present or Absent; the tuple
\* handed to the store for a record has Present when the record's status is
\* exactly Present and Absent for any other status; and a status other than
\* Present does not get a submission refused: a valid submission of an
\* authorized principal that carries one is saved (the store permitting).
C18_StatusPresentOrAbsent ==
    /\ \A a \in attendance : a.status \in {"Present", "Absent"}
    /\ (PostDone /\ R.upserted) =>
          /\ \A i \in DOMAIN R.records :
                R.values[i].status =
                   IF R.records[i].status = "Present" THEN "Present" ELSE "Absent"
          /\ \A sid \in SubmittedStudents(R) :
                \A a \in StoredFor(attendance, sid, R.date) :
                   a.status = (IF LastStatus(R.records, sid) = "Present"
                               THEN "Present" ELSE "Absent")
    /\ (PostDone /\ ValidPayload(R) /\ Authorized(R) /\ ~R.storeError)
          => R.resp.status = 200

\* a record with status Late was saved and is stored as Absent
C18_Witness ==
    /\ PostDone /\ R.resp.status = 200
    /\ \E i \in DOMAIN R.records :
          /\ R.records[i].status = "Late"
          /\ \E a \in StoredFor(attendance, R.records[i].student_id, R.date) :
                a.status = "Absent"

----------------------------------------------------------------------------
(* Frame of the upserts *)

\* the natural keys of the records of a submission
SubmittedAttendanceKeys(r) ==
    {<<r.records[i].student_id, DATE(r.date)>> : i \in DOMAIN r.records}
SubmittedMarksKeys(r) ==
    {<<r.records[i].student_id, r.batch_id, r.assessment>> : i \in DOMAIN r.records}

\* the rows of a table whose key is not among keys
OtherAttendance(att, keys) == {a \in att : AttendanceKey(a) \notin keys}
OtherMarks(tbl, keys) == {m \in tbl : MarksKey(m) \notin keys}

\* C19: at every point of an attendance or marks submission, and after it,
\* the stored rows whose key is not a key of the submitted records are the
\* rows that were stored before it: none changed, added or removed.
C19_OtherKeysUntouched ==
    /\ R.kind = "att_post" =>
          OtherAttendance(attendance, SubmittedAttendanceKeys(R))
             = OtherAttendance(R.attBefore, SubmittedAttendanceKeys(R))
    /\ R.kind = "marks_post" =>
          OtherMarks(marks, SubmittedMarksKeys(R))
             = OtherMarks(R.marksBefore, SubmittedMarksKeys(R))

\* an attendance submission was saved next to a stored row of the same
\* student for another date, which is still there
C19_Witness ==
    /\ PostDone /\ R.resp.status = 200 /\ attendance # R.attBefore
    /\ \E a \in R.attBefore :
          /\ a.student_id \in SubmittedStudents(R)
          /\ a.attendance_date # DATE(R.date)
          /\ a \in attendance

----------------------------------------------------------------------------
(* Shape validation *)

\* the date inputs that are a calendar day written yyyy-mm-dd
CalendarDates == {"2024-01-15", "2024-01-16"}

\* the fields of an attendance submission that fail the shape checks
OffendingFields(r) ==
    (IF r.date \in CalendarDates THEN {} ELSE {"date"})
    \cup (IF r.batch_id # 0 THEN {} ELSE {"batch_id"})
    \cup (IF r.isArray /\ Len(r.records) > 0 THEN {} ELSE {"records"})

\* C20: an attendance submission with a missing or malformed date, a missing
\* batch_id, or records that are empty or not a list leaves the attendance
\* rows unchanged and gets 400 'Validation failed' naming an offending field
\* (on the admin-only route a principal who is not an admin gets the 403
\* first); a marks submission without records gets 400, opens no transaction
\* and leaves the marks rows unchanged.
C20_MalformedRejected ==
    /\ (PostDone /\ OffendingFields(R) # {}) =>
          /\ NoWrite(R)
          /\ (R.route # "admin" \/ isAdmin(R.user)) =>
                /\ R.resp.status = 400
                /\ R.resp.message = "Validation failed"
                /\ R.resp.fields \in OffendingFields(R)
    /\ (MarksDone /\ Len(R.records) = 0) =>
          /\ R.resp.status = 400
          /\ R.txn = "none" /\ R.conn = "none"
          /\ marks = R.marksBefore

\* a submission with a date that is not yyyy-mm-dd, and nothing else wrong,
\* was refused naming the date
C20_Witness ==
    /\ PostDone /\ R.date = "15-01-2024"
    /\ OffendingFields(R) = {"date"}
    /\ R.resp.status = 400 /\ R.resp.fields = "date"
    /\ attendance = R.attBefore

----------------------------------------------------------------------------
(* The count of a successful write *)

\* the rows a completed submission stored: the rows held under the keys of
\* its records
AttendanceRowsWritten(r) ==
    {a \in attendance : AttendanceKey(a) \in SubmittedAttendanceKeys(r)}
MarksRowsWritten(r) ==
    {m \in marks : MarksKey(m) \in SubmittedMarksKeys(r)}

\* C21: the count in the response of a successful attendance or marks write
\* is the number of records that request wrote to the store, also when two
\* records of the payload name the same student.
C21_CountIsRecordsWritten ==
    /\ (PostDone /\ R.resp.status = 200) =>
          R.resp.count = Cardinality(AttendanceRowsWritten(R))
    /\ (MarksDone /\ R.resp.status = 200) =>
          R.resp.count = Cardinality(MarksRowsWritten(R))

----------------------------------------------------------------------------
(* The tuples an award stores *)

\* a tuple that has no level-up pending
Leveled(t) == t.level < MAX_LEVEL => t.xp < t.next_xp_target

\* C22: while an award to a teacher is between its store queries, the stored
\* tuple of that teacher has no level-up pending (below level 10 its xp is
\* under next_xp_target), given that the tuple the award started from had
\* none: a read between the steps sees no partly leveled tuple.
C22_OnlyFinalTuplePersisted ==
    \A w \in Workers : \A t \in DOMAIN teachers :
        (/\ InAward(req[w], t)
         /\ req[w].pc \in {"xp_select", "xp_update"}
         /\ Leveled(req[w].xpStart)) => Leveled(teachers[t])

----------------------------------------------------------------------------
(* Who is awarded *)

\* C23: the teacher awarded XP for an attendance submission is the principal
\* stored as recorded_by on every row the submission wrote, whoever the
\* authorized caller is, an admin submitting through a teacher's path id
\* included.
C23_AwardGoesToRecorder ==
    (R.kind = "att_post" /\ InXPUpdate(R)) =>
        \A i \in DOMAIN R.values : R.values[i].recorded_by = R.teacherId

----------------------------------------------------------------------------
(* The assignment check and the write *)

\* a step in which a principal who is not an admin writes attendance rows
TeacherWrites ==
    attendance' # attendance /\ R.kind = "att_post" /\ ~isAdmin(R.user)

\* C24 as stated: the assignment check and the write are atomic with respect
\* to unassignment, so whenever a teacher's request writes attendance rows
\* for a batch the (teacher, batch) pair is assigned at that moment.
C24_CheckAndWriteAtomic ==
    [][TeacherWrites => <<R.tid, R.batch_id>> \in teacher_batches]_vars

\* C24 amended: the assignment check of a teacher's request passes only
\* while the (teacher, batch) pair is assigned, and the request goes on to
\* the students query and the write only after it passed: an unassignment
\* completed before the check prevents the write.
C24_WriteOnlyAfterPassedCheck ==
    /\ [][(R.pc = "has_batch" /\ R'.pc \notin {"has_batch", "done"})
             => <<R.tid, R.batch_id>> \in teacher_batches]_vars
    /\ []((R.kind = "att_post" /\ ~isAdmin(R.user)
             /\ (R.pc \in {"students", "upsert"} \/ R.upserted)) => R.everAssigned)
    /\ [][TeacherWrites => R.pc = "upsert"]_vars

\* a teacher's submission, sent while the pair was assigned, was refused as
\* not assigned because the unassignment completed before its check, and it
\* wrote nothing
C24_Witness ==
    /\ PostDone /\ ~isAdmin(R.user)
    /\ R.resp.status = 403 /\ R.resp.message = "Forbidden: not assigned to batch"
    /\ R.everAssigned /\ ~R.alwaysAssigned
    /\ <<R.tid, R.batch_id>> \notin teacher_batches
    /\ NoWrite(R)

----------------------------------------------------------------------------
(* The two teacher-scoped attendance write endpoints *)

\* C25: a submission saved through POST /api/teachers/:id/attendance or
\* through POST /api/attendance/teachers/:id/attendance ends, for the same
\* principal, payload and starting store, with the same response, the same
\* attendance rows and the same XP tuple of the teacher of the path, those
\* of the teachers router: 'Saved' with the count, the submitted records
\* upserted, one award of 10 XP (the XP update not failing).
C25_EndpointsEquivalent ==
    (PostDone /\ R.route \in {"teachers", "attendance"}
        /\ R.resp.status = 200 /\ ~R.xpError) =>
        /\ R.resp.message = "Saved" /\ R.resp.count = Len(R.records)
        /\ attendance = UpsertAll(R.attBefore, BuildValues(R))
        /\ AwardedOnce(R, R.tid, XP_ATTENDANCE)

----------------------------------------------------------------------------
(* The records handed to the upsert *)

\* C26: every record in the VALUES of an attendance upsert names a student
\* that belongs to batch_id; a submission with a missing, zero or
\* non-numeric student_id (read as 0) next to valid records never gets as
\* far as the upsert.
C26_OnlyCheckedRecordsReachStore ==
    (R.kind = "att_post" /\ R.pc = "upsert") =>
        \A i \in DOMAIN R.values : InBatch(R.values[i].student_id, R.batch_id)

----------------------------------------------------------------------------
(* The tuple after serial awards *)

\* C27: in a serial execution from (0, 1, 250) with award amounts of zero or
\* more, after every completed award the tuple of every teacher has
\* xp >= 0, next_xp_target > 0 and, below level 10, xp < next_xp_target.
C27_TupleInvariantAfterAward ==
    AwardDone(1) =>
        \A t \in DOMAIN teachers :
            /\ teachers[t].xp >= 0
            /\ teachers[t].next_xp_target > 0
            /\ Leveled(teachers[t])

\* an award that leveled up more than once has completed below level 10 with
\* XP left over
C27_Witness ==
    /\ AwardDone(1) /\ req[1].iters >= 2
    /\ teachers[1].level < MAX_LEVEL
    /\ teachers[1].xp > 0

\* the target that belongs to a level
TargetOfLevel(level) ==
    IF level <= 9 THEN 250 + 150 * (level - 1) ELSE 1450

\* C28: in every state of a serial execution from (0, 1, 250) the stored
\* next_xp_target of a teacher is determined by the stored level:
\* 250 + 150 * (level - 1) up to level 9, and 1450 at level 10.
C28_TargetIsFunctionOfLevel ==
    \A t \in DOMAIN teachers :
        teachers[t].next_xp_target = TargetOfLevel(teachers[t].level)

\* serial awards have taken a teacher to level 10 with the target of level 9
C28_Witness ==
    /\ teachers[1].level = MAX_LEVEL
    /\ teachers[1].next_xp_target = 1450
    /\ req[1].pc = "idle"

----------------------------------------------------------------------------
(* Termination of an award *)

\* Awards to a row that holds any tuple, and to an id without a row (a
\* teacher deleted by DELETE /api/teachers/:id)
LoopXPs == {0, 100, 2000}
LoopTargets == {0 - LEVEL_STEP, 0, DEFAULT_NEXT_XP_TARGET, 1450}
LoopAmounts == {XP_ATTENDANCE, 5000}
DeletedTeacher == 3
LoopTeachers == {1, DeletedTeacher}

InitLoop ==
    /\ teachers \in {[t \in TeacherIds |->
                         IF t = 1 THEN [xp |-> x, level |-> l, next_xp_target |-> n]
                         ELSE [xp |-> 0, level |-> DEFAULT_LEVEL,
                               next_xp_target |-> DEFAULT_NEXT_XP_TARGET]] :
                      x \in LoopXPs, l \in 1..MAX_LEVEL, n \in LoopTargets}
    /\ teacher_batches = {<<1, 1>>}
    /\ attendance = {}
    /\ marks = {}
    /\ req = [w \in Workers |-> Idle]
    /\ nreq = 0

\* addTeacherXP(teacherId, amount) is called
AwardLoop ==
    /\ req[1].pc = "idle"
    /\ nreq < MaxLoopAwards
    /\ \E t \in LoopTeachers, a \in LoopAmounts :
         req' = [req EXCEPT ![1] =
                    CallAddTeacherXP([Idle EXCEPT !.kind = "award"], t, a)]
    /\ nreq' = nreq + 1
    /\ UNCHANGED <<teachers, teacher_batches, attendance, marks>>

\* every awaited query of an award returns or fails
NextLoop == AwardLoop \/ XPStep(1) \/ Finish(1)
SpecLoop == InitLoop /\ [][NextLoop]_vars /\ WF_vars(XPStep(1))

\* C29: an award that has started reaches its end; its level-up loop runs at
\* most 10 minus the level of the row times, so at most 9 times, whatever
\* xp and next_xp_target the row holds, a next_xp_target of zero or below
\* included; and an award to an id without a row ends with no iteration and
\* no row changed.
C29_AwardTerminates ==
    /\ [](req[1].kind = "award" =>
            IF req[1].teacherId \in DOMAIN teachers
            THEN /\ req[1].iters <= MAX_LEVEL - req[1].xpStart.level
                 /\ req[1].iters <= 9
            ELSE req[1].iters = 0)
    /\ [][(req[1].kind = "award" /\ req[1].teacherId \notin DOMAIN teachers)
             => teachers' = teachers]_vars
    /\ (InXPUpdate(req[1]) ~> req[1].pc = "done")

\* an award to a row at level 1 with a target of zero or below has ended
\* after nine iterations
C29_Witness ==
    /\ req[1].kind = "award" /\ req[1].pc = "done" /\ ~req[1].xpError
    /\ req[1].teacherId \in DOMAIN teachers
    /\ req[1].xpStart.next_xp_target <= 0
    /\ req[1].iters = 9

----------------------------------------------------------------------------
(* The connection and the transaction of a marks write *)

\* the marks handler is between its awaited calls on the connection
InMarksHandler(r) ==
    r.pc \in {"m_get_conn", "m_begin", "m_upsert", "m_commit",
              "m_rollback_400", "m_rollback_500"}

\* the marks handler has returned
MarksReturned(r) == r.kind = "marks_post" /\ ~InMarksHandler(r)

====
